---- MODULE Spec2Model ----
(***************************************************************************)
(* Model of the MoltScraper crawl controller (src/scraper.py, src/main.py).*)
(* One scraper instance runs scrape_all_posts: load_moltbook, then for     *)
(* every shuffle an extraction pass over the rendered feed cards, a detail *)
(* fetch per card, dedup, accumulation and a click on the shuffle control. *)
(***************************************************************************)
EXTENDS Integers, Sequences, FiniteSets, TLC

(* ---------------------------------------------------------------------- *)
(* Bounds of the model                                                     *)
(* ---------------------------------------------------------------------- *)
MaxShuffles == 2      \* MAX_SHUFFLES is drawn from 1..MaxShuffles
MaxPosts == 3         \* MAX_POSTS is drawn from 1..MaxPosts
MaxFeed == 2          \* cards rendered at once
MaxClock == 6         \* seconds the clock may advance in one run
MaxRuns == 2          \* scraper instances run one after the other
MaxAmount == 3        \* largest amount of a relative age
MaxBlocks == 11       \* comment blocks (div.py-2) on one detail page

(* ---------------------------------------------------------------------- *)
(* Program constants                                                       *)
(* ---------------------------------------------------------------------- *)
HTTP_CONCURRENCY_LIMIT == 3
BASE_URL == "https://www.moltbook.com"
max_retries == 3
ContentPrefix == 80

(* Python's None for optional strings and for an optional datetime.        *)
None == "<None>"
NoTime == -1

(* The wall clock at the start of the run, in seconds since a local        *)
(* midnight: day 3, 05:07:58.                                              *)
Now0 == 277678
Delays == {3}

(* ---------------------------------------------------------------------- *)
(* String helpers (str methods used by the code)                           *)
(* ---------------------------------------------------------------------- *)
Char(s, k) == SubSeq(s, k, k)

Digits == "0123456789"
UpperCase == "ABCDEFGHIJKLMNOPQRSTUVWXYZ"
LowerCase == "abcdefghijklmnopqrstuvwxyz"

DigitValue(c) == (CHOOSE k \in 1..10 : Char(Digits, k) = c) - 1

IsDigitStr(s) == \A k \in 1..Len(s) : \E d \in 1..10 : Char(Digits, d) = Char(s, k)

\* int(s) for a string of decimal digits
RECURSIVE ParseInt(_)
ParseInt(s) ==
    IF Len(s) = 0 THEN 0
    ELSE 10 * ParseInt(SubSeq(s, 1, Len(s) - 1)) + DigitValue(Char(s, Len(s)))

LowerChar(c) ==
    IF \E k \in 1..26 : Char(UpperCase, k) = c
    THEN Char(LowerCase, CHOOSE k \in 1..26 : Char(UpperCase, k) = c)
    ELSE c

\* str.lower()
RECURSIVE lower(_)
lower(s) == IF Len(s) = 0 THEN "" ELSE LowerChar(Char(s, 1)) \o lower(SubSeq(s, 2, Len(s)))

\* str.startswith
StartsWith(s, p) == Len(s) >= Len(p) /\ SubSeq(s, 1, Len(p)) = p

\* f"{x}" of an optional string
Fmt(x) == IF x = None THEN "None" ELSE x

\* f"{timestamp}" of an optional datetime
FmtTime(t) == IF t = NoTime THEN "None" ELSE ToString(t)

\* a truthiness test that lets the empty string pass
TruthyNotNone(x) == x # None

\* Python truthiness of an optional string
Truthy(x) == x # None /\ x # ""

(* ---------------------------------------------------------------------- *)
(* _extract_post_url: href of the first "/post/" link, made absolute       *)
(* ---------------------------------------------------------------------- *)
_extract_post_url(href) ==
    IF href = None \/ href = "" THEN None
    ELSE IF StartsWith(href, "/") THEN BASE_URL \o href ELSE href

(* ---------------------------------------------------------------------- *)
(* _extract_timestamp(time_number, time_letter) at wall-clock time t       *)
(* returns <<timestamp, precision, raw>>                                   *)
(* ---------------------------------------------------------------------- *)
Floor(t, unit) == t - (t % unit)

_extract_timestamp(t, time_number, time_letter) ==
    IF ~Truthy(time_number) \/ ~Truthy(time_letter)
    THEN <<NoTime, "unknown", "">>
    ELSE IF ~IsDigitStr(time_number)
    THEN <<NoTime, "unknown", time_number \o time_letter \o " ago">>
    ELSE LET amount == ParseInt(time_number)
             unit == lower(time_letter)
             raw == ToString(amount) \o unit \o " ago"
         IN CASE unit = "s" -> <<t - amount, "seconds", raw>>
              [] unit = "m" -> <<Floor(t - 60 * amount, 60), "minutes", raw>>
              [] unit = "h" -> <<Floor(t - 3600 * amount, 3600), "hours", raw>>
              [] unit = "d" -> <<Floor(t - 86400 * amount, 86400), "days", raw>>
              \* "w": dt.replace on the unassigned dt raises, caught below
              [] unit = "w" -> <<NoTime, "unknown", time_number \o time_letter \o " ago">>
              \* "y": replace(day=0) raises ValueError, caught below
              [] unit = "y" -> <<NoTime, "unknown", time_number \o time_letter \o " ago">>
              [] OTHER -> <<NoTime, "unknown", raw>>

(* ---------------------------------------------------------------------- *)
(* _generate_post_id: the string that is hashed.  The signature is         *)
(* (submolt, author, ...) and base = author + submolt + timestamp + title  *)
(* + content[:80] + url.                                                   *)
(* ---------------------------------------------------------------------- *)
\* the content taken whole, without the slice
PrefixWhole(s, n) == s

\* s[:n]
Prefix(s, n) == SubSeq(s, 1, IF Len(s) < n THEN Len(s) ELSE n)

_generate_post_id(submolt, author, timestamp, title, content, url) ==
    Fmt(author) \o Fmt(submolt) \o FmtTime(timestamp) \o title
        \o Prefix(content, ContentPrefix) \o url

(* ---------------------------------------------------------------------- *)
(* Feed cards: what the feed page can render.  Each card is the markup of  *)
(* one div.animate-fadeIn as get_current_posts reads it.                   *)
(* ---------------------------------------------------------------------- *)
CardA == [title |-> "T", text |-> "go https://t.co/post/?u=", href |-> "/post/1",
          author |-> "alice", submolt |-> "m/general",
          time_number |-> "19", time_letter |-> "d"]
\* another site's link whose target ends in the URL of CardA
CardB == [title |-> "T", text |-> "go ",
          href |-> "https://t.co/post/?u=https://www.moltbook.com/post/1",
          author |-> "alice", submolt |-> "m/general",
          time_number |-> "19", time_letter |-> "d"]
\* a title only, no metadata block
CardC == [title |-> "News", text |-> "", href |-> "/post/2",
          author |-> "Unknown", submolt |-> None,
          time_number |-> None, time_letter |-> None]
\* neither title nor text
CardD == [title |-> "", text |-> "", href |-> "/post/3",
          author |-> "bob", submolt |-> "m/general",
          time_number |-> "5", time_letter |-> "m"]
\* the detail link of CardA under another heading
CardE == [title |-> "Other", text |-> "x", href |-> "/post/1",
          author |-> "bob", submolt |-> "m/general",
          time_number |-> "5", time_letter |-> "m"]
\* no "/post/" link in the card
CardF == [title |-> "Lost", text |-> "y", href |-> None,
          author |-> "carol", submolt |-> "m/general",
          time_number |-> "2", time_letter |-> "w"]

Cards == {CardA, CardB, CardC, CardD, CardE, CardF}

\* the dict get_current_posts appends for one card
get_current_posts(card) ==
    LET url == _extract_post_url(card.href)
    IN [title |-> card.title, text |-> card.text,
        url |-> IF Truthy(url) THEN url ELSE "",
        author |-> card.author, submolt |-> card.submolt,
        time_number |-> card.time_number, time_letter |-> card.time_letter]

Feeds == {S \in SUBSET Cards : Cardinality(S) <= MaxFeed}

Urls == {get_current_posts(c).url : c \in Cards}

\* random.shuffle: every order of the extracted list
Perms(S) ==
    {f \in [1..Cardinality(S) -> S] : \A a, b \in 1..Cardinality(S) : a # b => f[a] # f[b]}

(* ---------------------------------------------------------------------- *)
(* Outcomes of the environment                                             *)
(* ---------------------------------------------------------------------- *)
\* page.goto(BASE_URL): loaded, net::ERR_NAME_NOT_RESOLVED, another error
GotoOutcomes == {"ok", "dns", "error"}

\* detail navigation: a page with status 200, a page with status 429
\* (goto does not raise on an HTTP status), a timeout, a transport error,
\* and an empty document.  A card without a link is fetched with url "",
\* which page.goto rejects.
Raising == {"timeout", "neterr"}
FetchOutcomes(url) ==
    IF url = "" THEN {"neterr"}
    ELSE {"ok", "http429", "empty"} \cup Raising

\* the shuffle control: absent, disabled, click raises, clicked and the
\* feed became visible, clicked and the wait for the feed raises
ShuffleOutcomes == {"absent", "disabled", "click_raises", "clicked", "wait_raises"}

(* ---------------------------------------------------------------------- *)
(* State                                                                   *)
(* ---------------------------------------------------------------------- *)
VARIABLES
    MAX_SHUFFLES,        \* Config.MAX_SHUFFLES
    MAX_POSTS,           \* Config.MAX_POSTS
    pc,                  \* the await the crawl flow is suspended at
    attempt,             \* load_moltbook: goto attempts made
    page_loaded,         \* the feed page was navigated to
    shuffle,             \* loop index of scrape_all_posts
    posts_data,          \* the shuffled list of the current pass
    i,                   \* 1-based position in posts_data
    all_posts,           \* accumulated posts
    seen_posts,          \* self.seen_posts
    FETCHED_URL_CACHE,   \* module-level set of URLs
    cur,                 \* locals of parse_post_data across the fetch
    now,                 \* wall clock
    in_flight,           \* detail fetches started and not finished
    fetch_count,         \* per URL: detail fetches started in this run
    fetch_log,           \* <<url, outcome>> of every finished detail fetch
    shuffle_ok,          \* return value of the last click_shuffle
    rerendered,          \* this pass reads the same cards as the last one
    pass_added,          \* posts accumulated in the current pass
    raised_in,           \* function whose exception left scrape_all_posts
    exit_code,           \* return value of main
    stored,              \* the list main handed to DataStorage
    open_res,            \* resources of the scraper that are open
    run,                 \* number of the MoltbookScraper instance
    args,                \* arguments of a helper called on its own
    ret                  \* what that helper returned

vars == <<MAX_SHUFFLES, MAX_POSTS, pc, attempt, page_loaded, shuffle,
          posts_data, i, all_posts, seen_posts, FETCHED_URL_CACHE, cur, now,
          in_flight, fetch_count, fetch_log, shuffle_ok, rerendered,
          pass_added, raised_in, exit_code, stored, open_res, run, args, ret>>

NoCur == [timestamp |-> NoTime, precision |-> "", timestamp_raw |-> ""]
NotExited == -1

Init ==
    /\ MAX_SHUFFLES \in 1..MaxShuffles
    /\ MAX_POSTS \in 1..MaxPosts
    /\ pc = "__aenter__"
    /\ stored = <<>>
    /\ open_res = {}
    /\ run = 1
    /\ args = <<>>
    /\ ret = <<>>
    /\ attempt = 0
    /\ page_loaded = FALSE
    /\ shuffle = 0
    /\ posts_data = <<>>
    /\ i = 0
    /\ all_posts = <<>>
    /\ seen_posts = {}
    /\ FETCHED_URL_CACHE = {}
    /\ cur = NoCur
    /\ now = Now0
    /\ in_flight = 0
    /\ fetch_count = [u \in Urls |-> 0]
    /\ fetch_log = {}
    /\ shuffle_ok = "-"
    /\ rerendered = FALSE
    /\ pass_added = 0
    /\ raised_in = ""
    /\ exit_code = NotExited

\* time passes while a detail page is fetched (navigation, the 1.5 s wait
\* for lazy loading, the pacing sleep), up to the bound of the model
Advance(t) ==
    LET fits == {d \in Delays : t + d <= Now0 + MaxClock}
    IN IF fits = {} THEN {t} ELSE {t + d : d \in fits}

(* ---------------------------------------------------------------------- *)
(* Detail pages: the like counter spans and the comment blocks (div.py-2)  *)
(* of a rendered detail document.  The relative time of a comment is not   *)
(* modelled.                                                               *)
(* ---------------------------------------------------------------------- *)
PageBare == [bold |-> <<>>, blocks |-> <<>>]
PageThread ==
    [bold |-> <<"top", "7">>,
     blocks |-> << [author_link |-> "u/dave", paragraphs |-> <<"hi", "all">>, likes_text |-> "3 likes"],
                   [author_link |-> None, paragraphs |-> <<>>, likes_text |-> None],
                   [author_link |-> None, paragraphs |-> <<"hi">>, likes_text |-> None] >>]

\* the document a detail navigation ends on: the thread of /post/1, a page
\* without comments for every other post and for an error status
PageOf(url, outcome) ==
    IF outcome = "ok" /\ url = BASE_URL \o "/post/1" THEN PageThread ELSE PageBare

\* _extract_likes: the first purely numeric span.font-bold, else 0
_extract_likes(page) ==
    LET hits == {k \in 1..Len(page.bold) : page.bold[k] # "" /\ IsDigitStr(page.bold[k])}
    IN IF hits = {} THEN 0
       ELSE ParseInt(page.bold[CHOOSE k \in hits : \A m \in hits : k <= m])

\* str.replace("u/", "")
RECURSIVE StripU(_)
StripU(s) ==
    IF Len(s) = 0 THEN ""
    ELSE IF StartsWith(s, "u/") THEN StripU(SubSeq(s, 3, Len(s)))
    ELSE Char(s, 1) \o StripU(SubSeq(s, 2, Len(s)))

\* " ".join(paragraph texts)
RECURSIVE Join(_)
Join(ps) ==
    IF Len(ps) = 0 THEN ""
    ELSE IF Len(ps) = 1 THEN ps[1]
    ELSE ps[1] \o " " \o Join(Tail(ps))

\* re.search(r"\d+", text): the first run of digits, "" when there is none
RECURSIVE DigitRun(_)
DigitRun(s) ==
    IF Len(s) = 0 \/ ~IsDigitStr(Char(s, 1)) THEN ""
    ELSE Char(s, 1) \o DigitRun(SubSeq(s, 2, Len(s)))

RECURSIVE FirstDigits(_)
FirstDigits(s) ==
    IF Len(s) = 0 THEN ""
    ELSE IF IsDigitStr(Char(s, 1)) THEN DigitRun(s)
    ELSE FirstDigits(SubSeq(s, 2, Len(s)))

CommentOf(block, idx) ==
    LET author == IF block.author_link = None THEN "Unknown" ELSE StripU(block.author_link)
        content == Join(block.paragraphs)
        digits == IF block.likes_text = None THEN "" ELSE FirstDigits(block.likes_text)
    IN [comment_id |-> author \o content \o ToString(idx),
        author |-> author,
        content |-> content,
        likes |-> IF digits = "" THEN -1 ELSE ParseInt(digits)]

\* _parse_comments_from_detail: the comments kept, in block order
RECURSIVE ParseBlocks(_, _)
ParseBlocks(blocks, idx) ==
    IF idx > Len(blocks) THEN <<>>
    ELSE LET c == CommentOf(blocks[idx], idx)
         IN IF c.content = "" /\ c.author = "Unknown"
            THEN ParseBlocks(blocks, idx + 1)
            ELSE <<c>> \o ParseBlocks(blocks, idx + 1)

_parse_comments_from_detail(page) == ParseBlocks(page.blocks, 1)

(* ---------------------------------------------------------------------- *)
(* parse_post_data after the fetch: the Post that is built                 *)
(* ---------------------------------------------------------------------- *)
\* html is <<document>>, or <<>> when the fetch yields nothing (falsy html)
NoHtml == <<>>

BuildPost(post_data, locals, html, t) ==
    LET comments == IF html = NoHtml THEN <<>> ELSE _parse_comments_from_detail(html[1])
        likes == IF html = NoHtml THEN 0 ELSE _extract_likes(html[1])
    IN [post_id |-> _generate_post_id(post_data.author, post_data.submolt,
                                      locals.timestamp, post_data.title,
                                      post_data.text, post_data.url),
        author |-> IF Truthy(post_data.author) THEN post_data.author ELSE "Unknown",
        submolt |-> post_data.submolt,
        title |-> post_data.title,
        content |-> post_data.text,
        timestamp |-> IF locals.timestamp # NoTime THEN locals.timestamp ELSE t,
        timestamp_precision |-> IF locals.precision # "" THEN locals.precision ELSE "seconds",
        timestamp_raw |-> IF locals.timestamp_raw # "" THEN locals.timestamp_raw ELSE ToString(t),
        likes |-> likes,
        comments_count |-> Len(comments),
        comments |-> comments,
        url |-> post_data.url,
        scraped_at |-> t]

(* ---------------------------------------------------------------------- *)
(* load_moltbook: up to max_retries navigations to BASE_URL                *)
(* ---------------------------------------------------------------------- *)
LoadMoltbook ==
    /\ pc = "load_moltbook"
    /\ \E outcome \in GotoOutcomes :
        CASE outcome = "ok" ->
                /\ page_loaded' = TRUE
                /\ pc' = "wait_for_posts"
                /\ UNCHANGED <<attempt, raised_in>>
          [] outcome = "dns" ->
                /\ attempt' = attempt + 1
                \* after the last attempt the for-else logs and returns
                /\ pc' = IF attempt + 1 < max_retries THEN "load_moltbook" ELSE "wait_for_posts"
                /\ UNCHANGED <<page_loaded, raised_in>>
          [] outcome = "error" ->
                /\ pc' = "raised"
                /\ raised_in' = "load_moltbook"
                /\ UNCHANGED <<attempt, page_loaded>>
    /\ UNCHANGED <<MAX_SHUFFLES, MAX_POSTS, stored, open_res, run, args, ret, shuffle, posts_data, i, all_posts,
                   seen_posts, FETCHED_URL_CACHE, cur, now, in_flight,
                   fetch_count, fetch_log, shuffle_ok, rerendered, pass_added,
                   exit_code>>

(* ---------------------------------------------------------------------- *)
(* scrape_all_posts                                                        *)
(* ---------------------------------------------------------------------- *)
\* wait_for_posts at the top of a loop iteration, then random.shuffle
\* The cards rendered now are any feed when the page was loaded, none
\* otherwise; an empty list sends the iteration straight to click_shuffle.
Range(f) == {f[k] : k \in DOMAIN f}

WaitForPosts ==
    /\ pc = "wait_for_posts"
    /\ \E dom \in (IF page_loaded THEN Feeds ELSE {{}}) :
         /\ posts_data' \in {[k \in DOMAIN f |-> get_current_posts(f[k])] : f \in Perms(dom)}
         /\ rerendered' = (shuffle > 0 /\ Range(posts_data') = Range(posts_data))
         /\ IF dom = {}
            THEN i' = 0 /\ pc' = "click_shuffle"
            ELSE i' = 1 /\ pc' = "parse_post_data"
    /\ pass_added' = 0
    /\ UNCHANGED <<MAX_SHUFFLES, MAX_POSTS, stored, open_res, run, args, ret, attempt, page_loaded, shuffle,
                   all_posts, seen_posts, FETCHED_URL_CACHE, cur, now, in_flight,
                   fetch_count, fetch_log, shuffle_ok, raised_in, exit_code>>

\* the budget test with > in place of >=
BudgetReachedLate(n, max_posts) == n > max_posts

\* len(all_posts) >= Config.MAX_POSTS
BudgetReached(n, max_posts) == n >= max_posts

\* the budget tested only once the pass is over
AfterCardPassEnd(posts) ==
    IF i < Len(posts_data) THEN pc' = "parse_post_data" /\ i' = i + 1
    ELSE IF BudgetReached(Len(posts), MAX_POSTS) THEN pc' = "done" /\ i' = i
    ELSE pc' = "click_shuffle" /\ i' = i

\* the rest of the loop body after parse_post_data returned: budget check,
\* pacing sleep, next card or the end of the pass
AfterCard(posts) ==
    IF BudgetReached(Len(posts), MAX_POSTS) THEN pc' = "done" /\ i' = i
    ELSE IF i < Len(posts_data) THEN pc' = "parse_post_data" /\ i' = i + 1
    ELSE pc' = "click_shuffle" /\ i' = i

\* a cache test that never hits
InCacheNever(url, cache) == FALSE

\* url in FETCHED_URL_CACHE
InCache(url, cache) == url \in cache

\* a cache that is never written
CacheAddSkipped(cache, url) == cache

\* FETCHED_URL_CACHE.add(url)
CacheAdd(cache, url) == cache \cup {url}

\* parse_post_data up to the await of the detail fetch
ParsePostData ==
    /\ pc = "parse_post_data"
    /\ LET post_data == posts_data[i]
       IN IF (post_data.title = "" /\ post_data.text = "")
             \/ InCache(post_data.url, FETCHED_URL_CACHE)
          THEN \* returns None: nothing is appended
               /\ AfterCard(all_posts)
               /\ UNCHANGED <<FETCHED_URL_CACHE, cur, in_flight, fetch_count>>
          ELSE /\ LET ts == _extract_timestamp(now, post_data.time_number, post_data.time_letter)
                  IN cur' = [timestamp |-> ts[1], precision |-> ts[2], timestamp_raw |-> ts[3]]
               /\ FETCHED_URL_CACHE' = CacheAdd(FETCHED_URL_CACHE, post_data.url)
               /\ in_flight' = in_flight + 1
               /\ fetch_count' = [fetch_count EXCEPT ![post_data.url] = @ + 1]
               /\ pc' = "_fetch_page_browser"
               /\ i' = i
    /\ UNCHANGED <<MAX_SHUFFLES, MAX_POSTS, stored, open_res, run, args, ret, attempt, page_loaded, shuffle,
                   posts_data, all_posts, seen_posts, now, fetch_log,
                   shuffle_ok, rerendered, pass_added, raised_in, exit_code>>

\* a falsy document treated like a failed navigation
FetchResultStrict(outcome) ==
    IF outcome \in Raising \cup {"empty"} THEN "raise" ELSE "html"

\* what _fetch_page_browser hands to parse_post_data: the exception of
\* page.goto, a falsy document, or the html of the page it ended on
FetchResult(outcome) ==
    IF outcome \in Raising THEN "raise"
    ELSE IF outcome = "empty" THEN "none"
    ELSE "html"

\* page.goto calls of one _fetch_page_browser call: there is no retry loop
FetchAttempts(outcome) == 1

\* the fetch is dispatched without being awaited
ReleaseLeak(n) == n

\* the await of the fetch returns before the loop goes on
Release(n) == n - 1

\* a loop body without the seen_posts test
IsDuplicateNever(post_id, seen) == FALSE

\* post.post_id in self.seen_posts
IsDuplicate(post_id, seen) == post_id \in seen

\* the detail fetch finishes; parse_post_data builds the Post and the loop
\* body dedups and accumulates it
FetchPageBrowser ==
    /\ pc = "_fetch_page_browser"
    /\ LET post_data == posts_data[i]
       IN \E outcome \in FetchOutcomes(post_data.url), t \in Advance(now) :
          LET page == PageOf(post_data.url, outcome) IN
            /\ now' = t
            /\ in_flight' = Release(in_flight)
            /\ fetch_log' = fetch_log \cup {[url |-> post_data.url, outcome |-> outcome,
                                              result |-> FetchResult(outcome),
                                              attempts |-> FetchAttempts(outcome)]}
            /\ cur' = NoCur
            /\ IF FetchResult(outcome) = "raise"
               THEN /\ pc' = "raised"
                    /\ raised_in' = "_fetch_page_browser"
                    /\ UNCHANGED <<i, all_posts, seen_posts, pass_added>>
               ELSE LET html == IF FetchResult(outcome) = "none" THEN NoHtml ELSE <<page>>
                        post == BuildPost(post_data, cur, html, t)
                    IN /\ raised_in' = raised_in
                       /\ IF IsDuplicate(post.post_id, seen_posts)
                          THEN /\ UNCHANGED <<all_posts, seen_posts, pass_added>>
                               \* continue: no budget check, no sleep
                               /\ IF i < Len(posts_data)
                                  THEN pc' = "parse_post_data" /\ i' = i + 1
                                  ELSE pc' = "click_shuffle" /\ i' = i
                          ELSE /\ seen_posts' = seen_posts \cup {post.post_id}
                               /\ all_posts' = Append(all_posts, post)
                               /\ pass_added' = pass_added + 1
                               /\ AfterCard(all_posts')
    /\ UNCHANGED <<MAX_SHUFFLES, MAX_POSTS, stored, open_res, run, args, ret, attempt, page_loaded, shuffle,
                   posts_data, FETCHED_URL_CACHE, fetch_count, shuffle_ok,
                   rerendered, exit_code>>

\* click_shuffle without its try/except
click_shuffle_uncaught(outcome) ==
    IF outcome = "clicked" THEN "True"
    ELSE IF outcome \in {"click_raises", "wait_raises"} THEN "raise"
    ELSE "False"

\* click_shuffle: its return value; every exception is caught inside
click_shuffle(outcome) ==
    IF outcome = "clicked" THEN "True" ELSE "False"

\* sleep, click_shuffle, next iteration of the for loop
ClickShuffle ==
    /\ pc = "click_shuffle"
    /\ \E outcome \in (IF page_loaded THEN ShuffleOutcomes ELSE {"absent"}) :
         LET r == click_shuffle(outcome)
         IN IF r = "raise"
            THEN /\ pc' = "raised"
                 /\ raised_in' = "click_shuffle"
                 /\ shuffle_ok' = r
                 /\ UNCHANGED shuffle
            ELSE /\ shuffle_ok' = r
                 /\ shuffle' = shuffle + 1
                 /\ pc' = IF shuffle + 1 < MAX_SHUFFLES THEN "wait_for_posts" ELSE "done"
                 /\ raised_in' = raised_in
    /\ UNCHANGED <<MAX_SHUFFLES, MAX_POSTS, stored, open_res, run, args, ret, attempt, page_loaded, posts_data, i,
                   all_posts, seen_posts, FETCHED_URL_CACHE, cur, now, in_flight,
                   fetch_count, fetch_log, rerendered, pass_added, exit_code>>

(* ---------------------------------------------------------------------- *)
(* main: async with MoltbookScraper() as scraper, the storage calls, the    *)
(* exit code                                                               *)
(* ---------------------------------------------------------------------- *)
\* __aenter__ acquires in this order; __aexit__ closes page, browser,
\* playwright, session
Acquired == <<"session", "playwright", "browser", "page">>
Released == <<"page", "browser", "playwright", "session">>

\* __aenter__: a step that raises leaves what was acquired before it open,
\* and __aexit__ is not called for an __aenter__ that raised
AEnter ==
    /\ pc = "__aenter__"
    /\ \E k \in 0..Len(Acquired) :
         /\ open_res' = {Acquired[j] : j \in 1..k}
         /\ IF k = Len(Acquired)
            THEN /\ pc' = "load_moltbook"
                 /\ UNCHANGED <<raised_in, exit_code>>
            ELSE /\ pc' = "failed"
                 /\ raised_in' = "__aenter__"
                 /\ exit_code' = 1
    /\ UNCHANGED <<MAX_SHUFFLES, MAX_POSTS, stored, run, args, ret, attempt,
                   page_loaded, shuffle, posts_data, i, all_posts, seen_posts,
                   FETCHED_URL_CACHE, cur, now, in_flight, fetch_count,
                   fetch_log, shuffle_ok, rerendered, pass_added>>

\* what main hands to DataStorage when scrape_all_posts returned posts
Flush(state, posts) == IF state = "done" /\ posts # <<>> THEN posts ELSE <<>>

\* __aexit__ with its first k close calls succeeding: the call that raises
\* and those after it leave their resources open
AExit(res, k) == res \ {Released[j] : j \in 1..k}

\* the body of the async with ends (return, exception or cancellation),
\* __aexit__ runs, main returns
MainExit ==
    /\ pc \in {"done", "raised", "cancelled"}
    /\ stored' = Flush(pc, all_posts)
    /\ \E saved \in BOOLEAN, k \in 0..Len(Released) :
         /\ open_res' = AExit(open_res, k)
         /\ exit_code' =
              IF k < Len(Released) THEN 1
              ELSE IF pc = "cancelled" THEN 130
              ELSE IF pc = "raised" \/ all_posts = <<>> \/ ~saved THEN 1
              ELSE 0
    /\ pc' = CASE pc = "done" -> "exited"
               [] pc = "raised" -> "failed"
               [] pc = "cancelled" -> "interrupted"
    /\ UNCHANGED <<MAX_SHUFFLES, MAX_POSTS, run, args, ret, attempt,
                   page_loaded, shuffle, posts_data, i, all_posts, seen_posts,
                   FETCHED_URL_CACHE, cur, now, in_flight, fetch_count,
                   fetch_log, shuffle_ok, rerendered, pass_added, raised_in>>

Next ==
    \/ AEnter
    \/ LoadMoltbook
    \/ WaitForPosts
    \/ ParsePostData
    \/ FetchPageBrowser
    \/ ClickShuffle
    \/ MainExit

Spec == Init /\ [][Next]_vars

(* ---------------------------------------------------------------------- *)
(* The run with a user interrupt (Ctrl+C): the crawl flow is cancelled at  *)
(* the await it is suspended at, the async with block is left through      *)
(* __aexit__, neither except clause of main stores anything, run() exits   *)
(* with 130.                                                               *)
(* ---------------------------------------------------------------------- *)
Interrupt ==
    /\ pc \in {"load_moltbook", "wait_for_posts", "parse_post_data",
               "_fetch_page_browser", "click_shuffle"}
    /\ pc' = "cancelled"
    /\ in_flight' = 0
    /\ UNCHANGED <<MAX_SHUFFLES, MAX_POSTS, stored, open_res, run, args, ret,
                   attempt, page_loaded, shuffle, posts_data, i, all_posts,
                   seen_posts, FETCHED_URL_CACHE, cur, now, fetch_count,
                   fetch_log, shuffle_ok, rerendered, pass_added, raised_in,
                   exit_code>>

NextCancel ==
    \/ AEnter
    \/ LoadMoltbook
    \/ WaitForPosts
    \/ ParsePostData
    \/ FetchPageBrowser
    \/ ClickShuffle
    \/ Interrupt
    \/ MainExit

SpecCancel == Init /\ [][NextCancel]_vars

(* ---------------------------------------------------------------------- *)
(* Two crawl runs in one process: after a run that released its resources  *)
(* a new MoltbookScraper is constructed and run.  __init__ gives it an     *)
(* empty seen_posts; the module-level FETCHED_URL_CACHE is not touched.    *)
(* ---------------------------------------------------------------------- *)
NewRun ==
    /\ pc \in {"exited", "failed"}
    /\ open_res = {}
    /\ run < MaxRuns
    /\ run' = run + 1
    /\ pc' = "__aenter__"
    /\ seen_posts' = {}
    /\ all_posts' = <<>>
    /\ stored' = <<>>
    /\ attempt' = 0
    /\ page_loaded' = FALSE
    /\ shuffle' = 0
    /\ posts_data' = <<>>
    /\ i' = 0
    /\ cur' = NoCur
    /\ in_flight' = 0
    /\ fetch_count' = [u \in Urls |-> 0]
    /\ fetch_log' = {}
    /\ shuffle_ok' = "-"
    /\ rerendered' = FALSE
    /\ pass_added' = 0
    /\ raised_in' = ""
    /\ exit_code' = NotExited
    /\ UNCHANGED <<MAX_SHUFFLES, MAX_POSTS, FETCHED_URL_CACHE, now, open_res,
                   args, ret>>

NextRuns ==
    \/ AEnter
    \/ LoadMoltbook
    \/ WaitForPosts
    \/ ParsePostData
    \/ FetchPageBrowser
    \/ ClickShuffle
    \/ MainExit
    \/ NewRun

SpecRuns == Init /\ [][NextRuns]_vars

(* ---------------------------------------------------------------------- *)
(* The helpers called on their own: the arguments are drawn in the initial *)
(* state, one step applies the helper, the crawl state stays at rest.      *)
(* ---------------------------------------------------------------------- *)
AtRest ==
    /\ MAX_SHUFFLES = 1
    /\ MAX_POSTS = 1
    /\ stored = <<>>
    /\ open_res = {}
    /\ run = 1
    /\ attempt = 0
    /\ page_loaded = FALSE
    /\ shuffle = 0
    /\ posts_data = <<>>
    /\ i = 0
    /\ all_posts = <<>>
    /\ seen_posts = {}
    /\ FETCHED_URL_CACHE = {}
    /\ cur = NoCur
    /\ in_flight = 0
    /\ fetch_count = [u \in Urls |-> 0]
    /\ fetch_log = {}
    /\ shuffle_ok = "-"
    /\ rerendered = FALSE
    /\ pass_added = 0
    /\ raised_in = ""
    /\ exit_code = NotExited

Return(value) ==
    /\ ret' = value
    /\ pc' = "returned"
    /\ UNCHANGED <<MAX_SHUFFLES, MAX_POSTS, attempt, page_loaded, shuffle,
                   posts_data, i, all_posts, seen_posts, FETCHED_URL_CACHE,
                   cur, now, in_flight, fetch_count, fetch_log, shuffle_ok,
                   rerendered, pass_added, raised_in, exit_code, stored,
                   open_res, run, args>>

\* datetime.now() at the moment of a call
Clocks == {Now0 + k : k \in 0..MaxClock}

\* time_number: the digits of the age text; time_letter: its letters
TimeNumbers == {None, "", "007", "x"} \cup {ToString(k) : k \in 0..MaxAmount}
TimeLetters == {None, "", "s", "m", "h", "d", "w", "y", "D", "x", "mo"}

InitTime ==
    /\ pc = "_extract_timestamp"
    /\ args \in [time_number : TimeNumbers, time_letter : TimeLetters]
    /\ now \in Clocks
    /\ ret = <<>>
    /\ AtRest

ExtractTimestamp ==
    /\ pc = "_extract_timestamp"
    /\ Return(_extract_timestamp(now, args.time_number, args.time_letter))

SpecTime == InitTime /\ [][ExtractTimestamp]_vars

\* 80 characters, and contents that differ before, at and after them
Body80 == "0123456789012345678901234567890123456789"
              \o "0123456789012345678901234567890123456789"
Contents == {"", "go ", Body80, Body80 \o "a", Body80 \o "b",
             SubSeq(Body80, 1, ContentPrefix - 1) \o "Xa"}

InitId ==
    /\ pc = "_generate_post_id"
    /\ args \in [submolt : {None, "m/general"}, author : {"alice", "Unknown"},
                 timestamp : {NoTime, Now0}, title : {"", "T"},
                 url : {"", BASE_URL \o "/post/1"},
                 content1 : Contents, content2 : Contents]
    /\ now = Now0
    /\ ret = <<>>
    /\ AtRest

GeneratePostId ==
    /\ pc = "_generate_post_id"
    /\ Return(<<_generate_post_id(args.submolt, args.author, args.timestamp,
                                  args.title, args.content1, args.url),
                _generate_post_id(args.submolt, args.author, args.timestamp,
                                  args.title, args.content2, args.url)>>)

SpecId == InitId /\ [][GeneratePostId]_vars

\* the Post parse_post_data builds from one card dict at capture time t
\* (the detail page yields nothing)
PostAt(post_data, t) ==
    LET r == _extract_timestamp(t, post_data.time_number, post_data.time_letter)
    IN BuildPost(post_data,
                 [timestamp |-> r[1], precision |-> r[2], timestamp_raw |-> r[3]],
                 NoHtml, t)

InitCapture ==
    /\ pc = "capture"
    /\ args \in [post_data : {get_current_posts(c) : c \in Cards},
                 t1 : Clocks, t2 : Clocks]
    /\ now = Now0
    /\ ret = <<>>
    /\ AtRest

Capture ==
    /\ pc = "capture"
    /\ Return(<<PostAt(args.post_data, args.t1), PostAt(args.post_data, args.t2)>>)

SpecCapture == InitCapture /\ [][Capture]_vars

\* comment blocks of one author whose texts differ in a trailing digit
BlockKinds ==
    {[author_link |-> "u/a", paragraphs |-> <<"b1">>, likes_text |-> None],
     [author_link |-> "u/a", paragraphs |-> <<"b">>, likes_text |-> "3 likes"]}

Pages ==
    {PageBare, PageThread} \cup
    {[bold |-> <<>>, blocks |-> b] :
        b \in UNION {[1..n -> BlockKinds] : n \in 1..MaxBlocks}}

InitComments ==
    /\ pc = "_parse_comments_from_detail"
    /\ args \in [page : Pages]
    /\ now = Now0
    /\ ret = <<>>
    /\ AtRest

ParseCommentsFromDetail ==
    /\ pc = "_parse_comments_from_detail"
    /\ Return(_parse_comments_from_detail(args.page))

SpecComments == InitComments /\ [][ParseCommentsFromDetail]_vars

TypeOK ==
    /\ pc \in {"__aenter__", "load_moltbook", "wait_for_posts",
               "parse_post_data", "_fetch_page_browser", "click_shuffle",
               "done", "raised", "cancelled", "exited", "failed",
               "interrupted", "_extract_timestamp", "_generate_post_id",
               "_parse_comments_from_detail",
               "capture", "returned"}
    /\ shuffle \in 0..MAX_SHUFFLES
    /\ in_flight \in 0..1
    /\ exit_code \in {NotExited, 0, 1, 130}
    /\ open_res \subseteq Range(Acquired)
    /\ FETCHED_URL_CACHE \subseteq Urls

(* ====================================================================== *)
(* Properties                                                              *)
(* ====================================================================== *)

(* C1: the number of accumulated posts never exceeds MAX_POSTS, at any     *)
(* point of the run and in the returned list.                              *)
PostBudget == Len(all_posts) <= MAX_POSTS

\* the budget is reached in the middle of a later pass
PostBudgetWitness ==
    /\ pc = "done"
    /\ Len(all_posts) = MAX_POSTS
    /\ shuffle >= 1
    /\ i < Len(posts_data)

(* C2: no two accumulated posts have the same post_id, whatever cards the  *)
(* feed shows across shuffles.                                             *)
UniquePostIds ==
    \A a, b \in 1..Len(all_posts) :
        a # b => all_posts[a].post_id # all_posts[b].post_id

\* a post was built from a second URL and rejected by the seen_posts test
UniquePostIdsWitness ==
    /\ Cardinality({e \in fetch_log : e.result # "raise"}) > Len(all_posts)
    /\ Len(all_posts) >= 1

(* C3: a failing shuffle control never ends the run: the step of a failed  *)
(* click_shuffle goes on to the next loop iteration while the shuffle      *)
(* budget lasts, and scrape_all_posts returns only when the shuffle budget *)
(* is exhausted or the post budget is reached.                             *)
ShuffleFailureStep ==
    (pc = "click_shuffle" /\ pc' # pc /\ shuffle_ok' # "True") =>
        /\ shuffle' = shuffle + 1
        /\ all_posts' = all_posts
        /\ pc' = IF shuffle' < MAX_SHUFFLES THEN "wait_for_posts" ELSE "done"

ShuffleFailureNonFatal ==
    /\ [](pc = "done" => (shuffle = MAX_SHUFFLES \/ Len(all_posts) >= MAX_POSTS))
    /\ [][ShuffleFailureStep]_vars

\* the extraction pass after a failed click is fetching a detail page
ShuffleFailureWitness ==
    /\ shuffle_ok = "False"
    /\ shuffle >= 1
    /\ pc = "_fetch_page_browser"

(* C4: a detail URL is fetched at most once in a run: a card whose URL is  *)
(* in the fetched-URL set starts no fetch and contributes no post, and a   *)
(* pass over the same cards as the pass before contributes no post.        *)
CachedCardStep ==
    (pc = "parse_post_data" /\ posts_data[i].url \in FETCHED_URL_CACHE) =>
        /\ pc' # "_fetch_page_browser"
        /\ UNCHANGED <<fetch_count, in_flight, all_posts, FETCHED_URL_CACHE>>

FetchedAtMostOnce ==
    /\ [](\A u \in Urls : fetch_count[u] <= 1)
    /\ [](rerendered => pass_added = 0)
    /\ [][CachedCardStep]_vars

\* a second pass over cards that gave posts in the first has ended
FetchedAtMostOnceWitness ==
    /\ rerendered
    /\ pc = "click_shuffle"
    /\ posts_data # <<>>
    /\ \A k \in 1..Len(posts_data) :
          /\ fetch_count[posts_data[k].url] = 1
          /\ \E m \in 1..Len(all_posts) : all_posts[m].url = posts_data[k].url
    /\ pass_added = 0

(* C5: an exception raised while one card is extracted or detail-fetched   *)
(* is confined to that card: it never leaves scrape_all_posts.             *)
CardFailureConfined == raised_in # "_fetch_page_browser"

TransientFetchRetried ==
    \A e \in fetch_log :
        e.outcome \in {"http429", "timeout", "neterr"} =>
            /\ e.attempts \in 2..5
            /\ e.result = "none"

(* C8: the number of detail fetches in flight never exceeds the            *)
(* concurrency cap.                                                        *)
InFlightCap == in_flight <= HTTP_CONCURRENCY_LIMIT

\* a fourth detail fetch is in flight
InFlightCapWitness ==
    /\ in_flight = 1
    /\ Cardinality(fetch_log) >= HTTP_CONCURRENCY_LIMIT

(* C9: every URL in the fetched-URL set has had a detail fetch that        *)
(* completed and returned content.                                         *)
CacheOnlyOnSuccess ==
    \A u \in FETCHED_URL_CACHE :
        \E e \in fetch_log : e.url = u /\ e.result = "html"

(* C10: when every navigation attempt to the base URL fails with the DNS   *)
(* error, the failure leaves scrape_all_posts and no loop iteration runs.  *)
DnsFailureFatal == attempt = max_retries => pc \in {"raised", "failed"}

ResourcesReleased ==
    pc \in {"exited", "failed", "interrupted"} => open_res = {}

(* C13: the fetched-URL set and the seen-identifier set are both empty at  *)
(* the start of every crawl run.                                           *)
FreshSetsAtRunStart ==
    pc = "__aenter__" => (FETCHED_URL_CACHE = {} /\ seen_posts = {})

(* C14: a not-yet-seen card with a title or a body yields an emitted post  *)
(* whichever other field could not be located; here the card whose detail  *)
(* URL could not be located (url = "") and that was handed to the fetch.   *)
MissingFieldCardEmitted ==
    \A e \in fetch_log :
        e.url = "" => \E k \in 1..Len(all_posts) : all_posts[k].url = ""

(* C15: a run of scrape_all_posts that entered its loop ends in DONE: it   *)
(* makes at most MAX_SHUFFLES passes, and it ends exactly when the shuffle *)
(* budget is exhausted or the post budget is reached.                      *)
PassesBounded ==
    /\ shuffle <= MAX_SHUFFLES
    /\ pc \in {"done", "exited"} =>
          (shuffle = MAX_SHUFFLES \/ Len(all_posts) >= MAX_POSTS)

RunEndsDone ==
    /\ PassesBounded
    /\ (pc = "raised" => raised_in = "load_moltbook")

Units == {"s", "m", "h", "d", "w", "y"}

IntegerAmount(x) == x \notin {None, ""} /\ IsDigitStr(x)

Duration(amount, unit) ==
    CASE unit = "s" -> amount
      [] unit = "m" -> 60 * amount
      [] unit = "h" -> 3600 * amount
      [] unit = "d" -> 86400 * amount
      [] unit = "w" -> 604800 * amount
      [] unit = "y" -> 365 * 86400 * amount

(* C16: for every integer amount and every unit of s, m, h, d, w, y the    *)
(* returned timestamp lies exactly duration(amount, unit) before now.      *)
ExactAge ==
    (/\ pc = "returned"
     /\ IntegerAmount(args.time_number)
     /\ args.time_letter \in Units)
    => /\ ret[1] # NoTime
       /\ now - ret[1] = Duration(ParseInt(args.time_number), args.time_letter)

\* the same for the unit s alone
ExactAgeSeconds ==
    (/\ pc = "returned"
     /\ IntegerAmount(args.time_number)
     /\ args.time_letter = "s")
    => now - ret[1] = ParseInt(args.time_number)

Plural(unit) ==
    CASE unit = "s" -> "seconds"
      [] unit = "m" -> "minutes"
      [] unit = "h" -> "hours"
      [] unit = "d" -> "days"
      [] unit = "w" -> "weeks"
      [] unit = "y" -> "years"

Labelled(units) ==
    (/\ pc = "returned"
     /\ IntegerAmount(args.time_number)
     /\ args.time_letter \in units)
    => /\ ret[1] # NoTime
       /\ ret[2] = Plural(args.time_letter)
       /\ ret[3] = ToString(ParseInt(args.time_number)) \o args.time_letter \o " ago"

(* C17: for every valid amount and each of the six units the result has a  *)
(* non-null timestamp, the plural unit name as precision and the raw label *)
(* "{amount}{unit} ago".                                                   *)
PluralLabels == Labelled(Units)

\* the same for the units s, m, h, d alone
PluralLabelsToDays == Labelled({"s", "m", "h", "d"})

(* C18: a unit outside s, m, h, d, w, y gives (null, "unknown", raw label), *)
(* a missing amount or unit gives (null, "unknown", ""), and every call    *)
(* returns a triple (nothing is raised).                                   *)
UnknownOrMissing ==
    pc = "returned" =>
        LET number == args.time_number
            letter == args.time_letter
        IN /\ Len(ret) = 3
           /\ (number \in {None, ""} \/ letter \in {None, ""})
                 => ret = <<NoTime, "unknown", "">>
           /\ (number \notin {None, ""} /\ letter \notin {None, ""}
                  /\ lower(letter) \notin Units)
                 => /\ ret[1] = NoTime
                    /\ ret[2] = "unknown"
                    /\ IsDigitStr(number)
                          => ret[3] = ToString(ParseInt(number))
                                         \o lower(letter) \o " ago"

\* an unknown unit with an integer amount
UnknownOrMissingWitness ==
    /\ pc = "returned"
    /\ args = [time_number |-> "3", time_letter |-> "mo"]
    /\ ret = <<NoTime, "unknown", "3mo ago">>

AgreeOnFirst(a, b, n) ==
    \A k \in 1..n :
        /\ (k <= Len(a)) = (k <= Len(b))
        /\ k <= Len(a) => SubSeq(a, k, k) = SubSeq(b, k, k)

(* C19: two calls of _generate_post_id with the same author, sub-forum,    *)
(* timestamp, title and url, and contents that agree on their first 80     *)
(* characters, return the same post_id.                                    *)
TruncatedIdentity ==
    (pc = "returned" /\ AgreeOnFirst(args.content1, args.content2, ContentPrefix))
        => ret[1] = ret[2]

\* two contents that differ only after character 80 got one id
TruncatedIdentityWitness ==
    /\ pc = "returned"
    /\ args.content1 # args.content2
    /\ Len(args.content1) > ContentPrefix
    /\ AgreeOnFirst(args.content1, args.content2, ContentPrefix)
    /\ ret[1] = ret[2]

(* C20: the same card gets the same post_id at any two capture times, and  *)
(* a card whose age cannot be parsed is identified with a null timestamp.  *)
NullTimeIdentity ==
    pc = "returned" =>
        \A k \in 1..2 :
            _extract_timestamp(args.t1, args.post_data.time_number,
                               args.post_data.time_letter)[1] = NoTime
            => ret[k].post_id =
                 _generate_post_id(args.post_data.author, args.post_data.submolt,
                                   NoTime, args.post_data.title,
                                   args.post_data.text, args.post_data.url)

StableIdentity ==
    /\ NullTimeIdentity
    /\ pc = "returned" => ret[1].post_id = ret[2].post_id

(* C21: once the number of accumulated posts has reached MAX_POSTS the run *)
(* has left the loop: from then on no card is processed, no detail fetch   *)
(* is started, no time is spent sleeping and the shuffle control is not    *)
(* invoked.                                                                *)
BudgetStopsStep ==
    Len(all_posts) >= MAX_POSTS =>
        /\ pc \in {"done", "exited", "failed"}
        /\ pc' \in {"done", "exited", "failed"}
        /\ UNCHANGED <<all_posts, seen_posts, posts_data, i, shuffle, shuffle_ok,
                       now, in_flight, fetch_count, fetch_log, FETCHED_URL_CACHE>>

BudgetStops == [][BudgetStopsStep]_vars

\* the budget was reached in the middle of the first pass and main returned
BudgetStopsWitness ==
    /\ pc = "exited"
    /\ Len(all_posts) = MAX_POSTS
    /\ shuffle = 0
    /\ i < Len(posts_data)

(* C22: a detail fetch that yields no content is not an error: the post is *)
(* built and, unless its post_id was seen before, appended with an empty   *)
(* comment list, comments_count 0 and likes 0; and every accumulated post  *)
(* has comments_count equal to the length of its comment list.             *)
CountMatchesList ==
    \A k \in 1..Len(all_posts) :
        all_posts[k].comments_count = Len(all_posts[k].comments)

NoContentStep ==
    (\E e \in fetch_log' \ fetch_log : e.outcome = "empty")
    => /\ pc' # "raised"
       /\ raised_in' = raised_in
       /\ BuildPost(posts_data[i], cur, NoHtml, now').post_id \notin seen_posts
            => /\ Len(all_posts') = Len(all_posts) + 1
               /\ LET post == all_posts'[Len(all_posts')]
                  IN /\ post.url = posts_data[i].url
                     /\ post.comments = <<>>
                     /\ post.comments_count = 0
                     /\ post.likes = 0

UnresolvedStep ==
    (/\ pc = "parse_post_data"
     /\ posts_data[i].url = ""
     /\ posts_data[i].title # "" \/ posts_data[i].text # "")
    => pc' = "_fetch_page_browser"

UnresolvedNotShortCircuited == [][UnresolvedStep]_vars

(* C24: at every point of a run seen_posts is the set of post_ids of the   *)
(* accumulated posts, the URL of every accumulated post is in              *)
(* FETCHED_URL_CACHE and no two accumulated posts share a URL; so a post   *)
(* rejected by the seen_posts test always collides with an accumulated     *)
(* post of another URL, that is, with a different field tuple.             *)
SeenTracksPosts ==
    /\ seen_posts = {all_posts[k].post_id : k \in 1..Len(all_posts)}
    /\ \A k \in 1..Len(all_posts) : all_posts[k].url \in FETCHED_URL_CACHE
    /\ \A a, b \in 1..Len(all_posts) :
          a # b => all_posts[a].url # all_posts[b].url

RejectedStep ==
    (/\ pc = "_fetch_page_browser"
     /\ pc' # "raised"
     /\ all_posts' = all_posts)
    => \E k \in 1..Len(all_posts) :
          /\ all_posts[k].post_id =
                _generate_post_id(posts_data[i].author, posts_data[i].submolt,
                                  cur.timestamp, posts_data[i].title,
                                  posts_data[i].text, posts_data[i].url)
          /\ all_posts[k].url # posts_data[i].url

SeenSetConsistent == []SeenTracksPosts /\ [][RejectedStep]_vars

\* two posts were accumulated and a third, built from another URL, was
\* rejected
SeenSetConsistentWitness ==
    /\ Len(all_posts) >= 2
    /\ \E e \in fetch_log :
          /\ e.result # "raise"
          /\ \A k \in 1..Len(all_posts) : all_posts[k].url # e.url

(* C25: no two comments kept from one detail page have the same hashed     *)
(* string, hence the same comment_id.                                      *)
DistinctCommentIds ==
    pc = "returned" =>
        \A a, b \in 1..Len(ret) : a # b => ret[a].comment_id # ret[b].comment_id

\* the same for pages of fewer than 11 blocks
DistinctCommentIdsToTen ==
    (pc = "returned" /\ Len(args.page.blocks) < 11) =>
        \A a, b \in 1..Len(ret) : a # b => ret[a].comment_id # ret[b].comment_id

====
